---------------------------- MODULE Spec2Model ----------------------------
(***************************************************************************)
(* A model of src/app.py: a script that splits a PDF into temporary chunk  *)
(* files (split_pdf), extracts the text of every chunk on a thread pool    *)
(* (process_chunk, process_large_pdf), writes the joined text to an output *)
(* file and finally sweeps the temporary directory (__main__).  SIGINT     *)
(* sets the global shutdown_flag (signal_handler).                         *)
(*                                                                         *)
(* A chunk file is identified by its position in the list split_pdf        *)
(* yields (1, 2, ...).  The text pdfminer extracts from chunk k is the     *)
(* one-character string <<k>>, unless extract_text raises.                 *)
(***************************************************************************)
EXTENDS Integers, Sequences, FiniteSets, TLC

\* ------------------------------------------------------------------ bounds
MaxPages == 12
MaxWorkers == 2
MaxChunk == 6
MaxSweeps == 2
MaxCalls == 2
MaxReusePages == 6

\* split_pdf(input_path, chunk_size=5)
DefaultChunkSize == 5

\* A chunk holds at least one page: there are at most total_pages chunks.
SegIds == 1..MaxPages

VARIABLES
    shutdown_flag,  \* threading.Event: is_set()
    total_pages,    \* len(reader.pages) of the input document
    num_workers,    \* process_large_pdf's num_workers
    chunk_size,     \* split_pdf's chunk_size, bound when the generator is made
    gen_state,      \* split_pdf generator: "new", "head", "write", "done", "raised"
    gen_i,          \* split_pdf's loop variable i
    segs,           \* the windows yielded so far: <<[lo, hi]>>, hi exclusive
    files,          \* the current call's chunk files present in tempfile.gettempdir()
    tpc,            \* per chunk, where its process_chunk task is
    result,         \* per chunk, process_chunk's return value
    unlinks,        \* per chunk, the os.unlink calls process_chunk made on it
    yielded,        \* the futures as_completed has yielded
    text_chunks,    \* the module-level list text_chunks
    full_text,      \* process_large_pdf's return value
    writes,         \* the number of times the output file was written
    out_text,       \* the content of the output file
    listing,        \* the sweeper's os.listdir snapshot still to visit
    warned,         \* chunks whose "Failed to delete temporary file" was logged
    error,          \* the exception __main__ caught: "none", "split", "join", "write"
    pc,             \* the main thread's position
    calls,          \* the calls of process_large_pdf made so far in this process
    sweeps,         \* the passes of the sweeper of __main__ started so far
    sweep_warned,   \* files whose "Failed to delete temporary file" the sweeper logged
    inflight_at_set,   \* history: the tasks inside extract_text when the flag was first set
    none_done_at_set   \* history: every task was submitted and none had finished then

vars == <<shutdown_flag, total_pages, num_workers, chunk_size, gen_state, gen_i,
          segs, files, tpc, result, unlinks, yielded, text_chunks, full_text,
          writes, out_text, listing, warned, error, pc, calls, sweeps,
          sweep_warned, inflight_at_set, none_done_at_set>>

genVars == <<chunk_size, gen_state, gen_i, segs>>
taskVars == <<tpc, result, unlinks, warned>>
mainVars == <<yielded, text_chunks, full_text, writes, out_text, listing, error>>
histVars == <<inflight_at_set, none_done_at_set>>
sweepVars == <<sweeps, sweep_warned>>
inputVars == <<total_pages, num_workers>>

\* ------------------------------------------------------------ pure helpers
Min(a, b) == IF a < b THEN a ELSE b

Ceil(a, b) == (a + b - 1) \div b

\* A Python value that is either a str (some = TRUE) or None.
NoneVal == [some |-> FALSE, text |-> <<>>]
Str(t) == [some |-> TRUE, text |-> t]

\* What extract_text(chunk_path) can do on chunk k: return its text or raise.
ExtractOutcomes(k) == {Str(<<k>>), NoneVal}

\* "".join(text_chunks)
RECURSIVE Join(_)
Join(chunks) ==
    IF chunks = <<>> THEN <<>>
    ELSE Head(chunks).text \o Join(Tail(chunks))

\* "".join raises TypeError on an item that is not a str.
JoinRaises(chunks) == \E n \in 1..Len(chunks) : ~chunks[n].some

\* How often the character c occurs in the string t.
RECURSIVE Count(_, _)
Count(c, t) ==
    IF t = <<>> THEN 0
    ELSE (IF Head(t) = c THEN 1 ELSE 0) + Count(c, Tail(t))

\* The window of pages split_pdf puts into the chunk that starts at page i:
\* range(i, min(i + chunk_size, total_pages)), hi exclusive.
WindowNoMin(i, cs, total) == [lo |-> i, hi |-> i + cs]

Window(i, cs, total) == [lo |-> i, hi |-> Min(i + cs, total)]

\* The chunk paths list(split_pdf(input_path)) holds.
chunk_paths == 1..Len(segs)

Submitted == {k \in SegIds : tpc[k] # "none"}
Running == {k \in SegIds : tpc[k] \in {"start", "pre", "extracting", "unlink"}}
Queued == {k \in SegIds : tpc[k] = "queued"}

\* ------------------------------------------------------------------- Init
InitCommon ==
    /\ shutdown_flag = FALSE
    /\ total_pages \in 0..MaxPages
    /\ gen_state = "new"
    /\ gen_i = 0
    /\ segs = <<>>
    /\ files = {}
    /\ tpc = [k \in SegIds |-> "none"]
    /\ result = [k \in SegIds |-> NoneVal]
    /\ unlinks = [k \in SegIds |-> 0]
    /\ yielded = {}
    /\ text_chunks = <<>>
    /\ full_text = <<>>
    /\ writes = 0
    /\ out_text = <<>>
    /\ listing = {}
    /\ warned = {}
    /\ error = "none"
    /\ calls = 0
    /\ sweeps = 0
    /\ sweep_warned = {}
    /\ inflight_at_set = {}
    /\ none_done_at_set = FALSE

\* The script: process_large_pdf(input_pdf_path) with split_pdf's default
\* chunk_size; num_workers is process_large_pdf's parameter.
Init ==
    /\ InitCommon
    /\ num_workers \in 1..MaxWorkers
    /\ chunk_size = DefaultChunkSize
    /\ pc = "main"

\* ------------------------------------------------------- signal_handler
\* shutdown_flag.set().  The two history variables record, at the first set,
\* which tasks were inside extract_text and whether no task had finished.
Interrupt ==
    /\ pc # "exit"
    /\ shutdown_flag' = TRUE
    /\ inflight_at_set' = IF shutdown_flag THEN inflight_at_set
                          ELSE {k \in SegIds : tpc[k] = "extracting"}
    /\ none_done_at_set' = IF shutdown_flag THEN none_done_at_set
                           ELSE /\ pc \in {"submit", "collect"}
                                /\ chunk_paths # {}
                                /\ chunk_paths \subseteq Submitted
                                /\ \A k \in Submitted : tpc[k] # "done"
    /\ UNCHANGED <<inputVars, genVars, files, taskVars, mainVars, pc, sweepVars,
                   calls>>

\* ---------------------------------------------------------------- split_pdf
\* reader = PdfReader(input_path); total_pages = len(reader.pages)
SplitOpen ==
    /\ pc = "split"
    /\ gen_state = "new"
    /\ \E ok \in BOOLEAN :
         gen_state' = IF ok THEN "head" ELSE "raised"
    /\ gen_i' = 0
    /\ UNCHANGED <<shutdown_flag, inputVars, chunk_size, segs, files, taskVars,
                   mainVars, pc, histVars, sweepVars, calls>>

\* for i in range(0, total_pages, chunk_size): if shutdown_flag.is_set(): break
SplitHead_DropPartial ==
    /\ pc = "split"
    /\ gen_state = "head"
    /\ gen_state' = IF gen_i + chunk_size > total_pages \/ shutdown_flag
                    THEN "done" ELSE "write"
    /\ UNCHANGED <<shutdown_flag, inputVars, chunk_size, gen_i, segs, files,
                   taskVars, mainVars, pc, histVars, sweepVars, calls>>

SplitHead_NoFlagCheck ==
    /\ pc = "split"
    /\ gen_state = "head"
    /\ gen_state' = IF gen_i >= total_pages THEN "done" ELSE "write"
    /\ UNCHANGED <<shutdown_flag, inputVars, chunk_size, gen_i, segs, files,
                   taskVars, mainVars, pc, histVars, sweepVars, calls>>

SplitHead ==
    /\ pc = "split"
    /\ gen_state = "head"
    /\ gen_state' = IF gen_i >= total_pages \/ shutdown_flag THEN "done" ELSE "write"
    /\ UNCHANGED <<shutdown_flag, inputVars, chunk_size, gen_i, segs, files,
                   taskVars, mainVars, pc, histVars, sweepVars, calls>>

\* The window is written to a new NamedTemporaryFile(delete=False) and its
\* path is yielded.  "nofile": the failure comes before the file exists;
\* "partial": writer.write raises and the file, made with delete=False, stays.
SplitWrite ==
    /\ pc = "split"
    /\ gen_state = "write"
    /\ \E outcome \in {"ok", "nofile", "partial"} :
         LET k == Len(segs) + 1 IN
         /\ files' = IF outcome = "nofile" THEN files ELSE files \cup {k}
         /\ segs' = IF outcome = "ok"
                    THEN Append(segs, Window(gen_i, chunk_size, total_pages))
                    ELSE segs
         /\ gen_i' = IF outcome = "ok" THEN gen_i + chunk_size ELSE gen_i
         /\ gen_state' = IF outcome = "ok" THEN "head" ELSE "raised"
    /\ UNCHANGED <<shutdown_flag, inputVars, chunk_size, taskVars, mainVars, pc,
                   histVars, sweepVars, calls>>

\* ------------------------------------------------------------ process_chunk
\* A pool thread takes the next work item of the executor's FIFO queue.
TaskStart_OffByOne(k) ==
    /\ tpc[k] = "queued"
    /\ \A j \in Queued : k <= j
    /\ Cardinality(Running) < num_workers - 1
    /\ tpc' = [tpc EXCEPT ![k] = "start"]
    /\ UNCHANGED <<shutdown_flag, inputVars, genVars, files, result, unlinks,
                   warned, mainVars, pc, histVars, sweepVars, calls>>

TaskStart(k) ==
    /\ tpc[k] = "queued"
    /\ \A j \in Queued : k <= j
    /\ Cardinality(Running) < num_workers
    /\ tpc' = [tpc EXCEPT ![k] = "start"]
    /\ UNCHANGED <<shutdown_flag, inputVars, genVars, files, result, unlinks,
                   warned, mainVars, pc, histVars, sweepVars, calls>>

\* if shutdown_flag.is_set(): return None      (before the try statement)
TaskCheck_NoFlagCheck(k) ==
    /\ tpc[k] = "start"
    /\ tpc' = [tpc EXCEPT ![k] = "pre"]
    /\ result' = [result EXCEPT ![k] = NoneVal]
    /\ UNCHANGED <<shutdown_flag, inputVars, genVars, files, unlinks, warned,
                   mainVars, pc, histVars, sweepVars, calls>>

TaskCheck(k) ==
    /\ tpc[k] = "start"
    /\ tpc' = [tpc EXCEPT ![k] = IF shutdown_flag THEN "done" ELSE "pre"]
    /\ result' = [result EXCEPT ![k] = NoneVal]
    /\ UNCHANGED <<shutdown_flag, inputVars, genVars, files, unlinks, warned,
                   mainVars, pc, histVars, sweepVars, calls>>

\* start_time = time.time(); try: extract_text(chunk_path) is entered
TaskExtractBegin(k) ==
    /\ tpc[k] = "pre"
    /\ tpc' = [tpc EXCEPT ![k] = "extracting"]
    /\ UNCHANGED <<shutdown_flag, inputVars, genVars, files, result, unlinks,
                   warned, mainVars, pc, histVars, sweepVars, calls>>

\* extract_text returns (return text) or raises (except: return None); the
\* finally clause runs before the value is returned.
TaskExtractEnd_NoFinally(k) ==
    /\ tpc[k] = "extracting"
    /\ \E r \in ExtractOutcomes(k) :
         /\ result' = [result EXCEPT ![k] = r]
         /\ tpc' = [tpc EXCEPT ![k] = IF r.some THEN "unlink" ELSE "done"]
    /\ UNCHANGED <<shutdown_flag, inputVars, genVars, files, unlinks, warned,
                   mainVars, pc, histVars, sweepVars, calls>>

TaskExtractEnd(k) ==
    /\ tpc[k] = "extracting"
    /\ \E r \in ExtractOutcomes(k) : result' = [result EXCEPT ![k] = r]
    /\ tpc' = [tpc EXCEPT ![k] = "unlink"]
    /\ UNCHANGED <<shutdown_flag, inputVars, genVars, files, unlinks, warned,
                   mainVars, pc, histVars, sweepVars, calls>>

\* finally: try: os.unlink(chunk_path) except Exception: logger.warning(...)
TaskUnlink(k) ==
    /\ tpc[k] = "unlink"
    /\ \E ok \in BOOLEAN :
         /\ files' = IF ok THEN files \ {k} ELSE files
         /\ warned' = IF ok THEN warned ELSE warned \cup {k}
    /\ unlinks' = [unlinks EXCEPT ![k] = @ + 1]
    /\ tpc' = [tpc EXCEPT ![k] = "done"]
    /\ UNCHANGED <<shutdown_flag, inputVars, genVars, result, mainVars, pc,
                   histVars, sweepVars, calls>>

\* -------------------------------------------------------- process_large_pdf
\* extracted_text = process_large_pdf(input_pdf_path); list(split_pdf(...))
\* makes the generator.
CallRun_ClearsFlag ==
    /\ pc = "main"
    /\ pc' = "split"
    /\ calls' = calls + 1
    /\ shutdown_flag' = FALSE
    /\ UNCHANGED <<inputVars, genVars, files, taskVars, mainVars, histVars,
                   sweepVars>>

CallRun ==
    /\ pc = "main"
    /\ pc' = "split"
    /\ calls' = calls + 1
    /\ UNCHANGED <<shutdown_flag, inputVars, genVars, files, taskVars, mainVars,
                   histVars, sweepVars>>

\* list(...) has drained the generator.
ListDone_Early ==
    /\ pc = "split"
    /\ gen_state \in {"head", "done"}
    /\ pc' = "submit"
    /\ UNCHANGED <<shutdown_flag, inputVars, genVars, files, taskVars, mainVars,
                   histVars, sweepVars, calls>>

ListDone ==
    /\ pc = "split"
    /\ gen_state = "done"
    /\ pc' = "submit"
    /\ UNCHANGED <<shutdown_flag, inputVars, genVars, files, taskVars, mainVars,
                   histVars, sweepVars, calls>>

\* The generator raised: the exception leaves process_large_pdf.
ListRaise ==
    /\ pc = "split"
    /\ gen_state = "raised"
    /\ pc' = "except"
    /\ error' = "split"
    /\ UNCHANGED <<shutdown_flag, inputVars, genVars, files, taskVars, yielded,
                   text_chunks, full_text, writes, out_text, listing, histVars, sweepVars, calls>>

\* executor.submit(process_chunk, chunk_path) for chunk_path in chunk_paths
Submit_SkipFirst ==
    /\ pc = "submit"
    /\ IF (chunk_paths \ {1}) \subseteq Submitted
       THEN /\ pc' = "collect"
            /\ tpc' = tpc
       ELSE LET k == CHOOSE c \in (chunk_paths \ {1}) \ Submitted :
                         \A d \in (chunk_paths \ {1}) \ Submitted : c <= d
            IN /\ tpc' = [tpc EXCEPT ![k] = "queued"]
               /\ pc' = pc
    /\ UNCHANGED <<shutdown_flag, inputVars, genVars, files, result, unlinks,
                   warned, mainVars, histVars, sweepVars, calls>>

Submit ==
    /\ pc = "submit"
    /\ IF chunk_paths \subseteq Submitted
       THEN /\ pc' = "collect"
            /\ tpc' = tpc
       ELSE LET k == CHOOSE c \in chunk_paths \ Submitted :
                         \A d \in chunk_paths \ Submitted : c <= d
            IN /\ tpc' = [tpc EXCEPT ![k] = "queued"]
               /\ pc' = pc
    /\ UNCHANGED <<shutdown_flag, inputVars, genVars, files, result, unlinks,
                   warned, mainVars, histVars, sweepVars, calls>>

\* for future in as_completed(future_to_chunk): chunk_text = future.result();
\* if chunk_text is not None: text_chunks.append(chunk_text)
Collect_NoNoneCheck ==
    /\ pc = "collect"
    /\ \E k \in Submitted \ yielded :
         /\ tpc[k] = "done"
         /\ yielded' = yielded \cup {k}
         /\ text_chunks' = Append(text_chunks, result[k])
    /\ pc' = "check"
    /\ UNCHANGED <<shutdown_flag, inputVars, genVars, files, taskVars, full_text,
                   writes, out_text, listing, error, histVars, sweepVars, calls>>

Collect ==
    /\ pc = "collect"
    /\ \E k \in Submitted \ yielded :
         /\ tpc[k] = "done"
         /\ yielded' = yielded \cup {k}
         /\ text_chunks' = IF result[k].some
                           THEN Append(text_chunks, result[k])
                           ELSE text_chunks
    /\ pc' = "check"
    /\ UNCHANGED <<shutdown_flag, inputVars, genVars, files, taskVars, full_text,
                   writes, out_text, listing, error, histVars, sweepVars, calls>>

\* as_completed is exhausted: the for loop ends.
CollectEnd ==
    /\ pc = "collect"
    /\ yielded = Submitted
    /\ pc' = "exit_with"
    /\ UNCHANGED <<shutdown_flag, inputVars, genVars, files, taskVars, mainVars,
                   histVars, sweepVars, calls>>

\* if shutdown_flag.is_set(): executor.shutdown(wait=False); break
CheckFlag_AlwaysBreak ==
    /\ pc = "check"
    /\ pc' = "exit_with"
    /\ UNCHANGED <<shutdown_flag, inputVars, genVars, files, taskVars, mainVars,
                   histVars, sweepVars, calls>>

CheckFlag ==
    /\ pc = "check"
    /\ pc' = IF shutdown_flag THEN "exit_with" ELSE "collect"
    /\ UNCHANGED <<shutdown_flag, inputVars, genVars, files, taskVars, mainVars,
                   histVars, sweepVars, calls>>

\* The with statement's exit, executor.shutdown(wait=True), joins the pool's
\* threads, which first run every work item still in the queue.
ExitWith_NoWait ==
    /\ pc = "exit_with"
    /\ pc' = "join"
    /\ UNCHANGED <<shutdown_flag, inputVars, genVars, files, taskVars, mainVars,
                   histVars, sweepVars, calls>>

ExitWith ==
    /\ pc = "exit_with"
    /\ \A k \in Submitted : tpc[k] = "done"
    /\ pc' = "join"
    /\ UNCHANGED <<shutdown_flag, inputVars, genVars, files, taskVars, mainVars,
                   histVars, sweepVars, calls>>

\* full_text = "".join(text_chunks); return full_text
JoinReturn ==
    /\ pc = "join"
    /\ IF JoinRaises(text_chunks)
       THEN /\ pc' = "except"
            /\ error' = "join"
            /\ full_text' = full_text
       ELSE /\ pc' = "returned"
            /\ error' = error
            /\ full_text' = Join(text_chunks)
    /\ UNCHANGED <<shutdown_flag, inputVars, genVars, files, taskVars, yielded,
                   text_chunks, writes, out_text, listing, histVars, sweepVars, calls>>

\* ----------------------------------------------------------------- __main__
\* if not shutdown_flag.is_set(): ... else: logger.info("Process was interrupted")
Decide_IgnoreFlag ==
    /\ pc = "returned"
    /\ pc' = "write"
    /\ UNCHANGED <<shutdown_flag, inputVars, genVars, files, taskVars, mainVars,
                   histVars, sweepVars, calls>>

Decide ==
    /\ pc = "returned"
    /\ pc' = IF shutdown_flag THEN "sweep" ELSE "write"
    /\ UNCHANGED <<shutdown_flag, inputVars, genVars, files, taskVars, mainVars,
                   histVars, sweepVars, calls>>

\* with open(output_text_path, 'w') as f: f.write(extracted_text)
WriteOutput ==
    /\ pc = "write"
    /\ \E ok \in BOOLEAN :
         IF ok
         THEN /\ writes' = writes + 1
              /\ out_text' = full_text
              /\ error' = error
              /\ pc' = "sweep"
         ELSE /\ UNCHANGED <<writes, out_text>>
              /\ error' = "write"
              /\ pc' = "except"
    /\ UNCHANGED <<shutdown_flag, inputVars, genVars, files, taskVars, yielded,
                   text_chunks, full_text, listing, histVars, sweepVars, calls>>

\* except Exception as e: logger.error(...)
Except_NoSweep ==
    /\ pc = "except"
    /\ pc' = "exit"
    /\ UNCHANGED <<shutdown_flag, inputVars, genVars, files, taskVars, mainVars,
                   histVars, sweepVars, calls>>

Except ==
    /\ pc = "except"
    /\ pc' = "sweep"
    /\ UNCHANGED <<shutdown_flag, inputVars, genVars, files, taskVars, mainVars,
                   histVars, sweepVars, calls>>

\* finally: for file in os.listdir(tempfile.gettempdir()):
SweepList ==
    /\ pc = "sweep"
    /\ listing' = files
    /\ sweeps' = sweeps + 1
    /\ pc' = "sweeping"
    /\ UNCHANGED <<shutdown_flag, inputVars, genVars, files, taskVars, yielded,
                   text_chunks, full_text, writes, out_text, error, histVars,
                   sweep_warned, calls>>

\* if file.endswith('.pdf'): try: os.unlink(...) except Exception: warning
\* os.listdir's order is arbitrary and the deletions are independent of one
\* another: the listing is visited in increasing order.
SweepOne_KeepsFile ==
    /\ pc = "sweeping"
    /\ \E f \in listing :
         /\ \A g \in listing : f <= g
         /\ listing' = listing \ {f}
    /\ UNCHANGED <<shutdown_flag, inputVars, genVars, files, taskVars, yielded,
                   text_chunks, full_text, writes, out_text, error, pc, histVars,
                   sweepVars, calls>>

SweepOne ==
    /\ pc = "sweeping"
    /\ \E f \in listing :
         /\ \A g \in listing : f <= g
         /\ listing' = listing \ {f}
         /\ \E ok \in BOOLEAN :
              /\ files' = IF ok THEN files \ {f} ELSE files
              /\ sweep_warned' = IF ok THEN sweep_warned ELSE sweep_warned \cup {f}
    /\ UNCHANGED <<shutdown_flag, inputVars, genVars, taskVars, yielded,
                   text_chunks, full_text, writes, out_text, error, pc, histVars,
                   sweeps, calls>>

\* The finally clause of __main__ run a second time, right after the first.
SweepAgain ==
    /\ pc = "sweeping"
    /\ listing = {}
    /\ sweeps < MaxSweeps
    /\ pc' = "sweep"
    /\ UNCHANGED <<shutdown_flag, inputVars, genVars, files, taskVars, mainVars,
                   histVars, sweepVars, calls>>

\* The listing is exhausted: the script ends.
SweepDone ==
    /\ pc = "sweeping"
    /\ listing = {}
    /\ pc' = "exit"
    /\ UNCHANGED <<shutdown_flag, inputVars, genVars, files, taskVars, mainVars,
                   histVars, sweepVars, calls>>

\* ------------------------------------------------------------------- Next
Worker ==
    \E k \in SegIds :
        \/ TaskStart(k)
        \/ TaskCheck(k)
        \/ TaskExtractBegin(k)
        \/ TaskExtractEnd(k)
        \/ TaskUnlink(k)

\* Every step of the program but the arrival of a signal.
Progress ==
    \/ CallRun
    \/ SplitOpen
    \/ SplitHead
    \/ SplitWrite
    \/ ListDone
    \/ ListRaise
    \/ Submit
    \/ Worker
    \/ Collect
    \/ CollectEnd
    \/ CheckFlag
    \/ ExitWith
    \/ JoinReturn
    \/ Decide
    \/ WriteOutput
    \/ Except
    \/ SweepList
    \/ SweepOne
    \/ SweepDone

Next == Interrupt \/ Progress

Spec == Init /\ [][Next]_vars

\* The script when every thread that can take a step eventually takes one
\* and every call of extract_text, of os.unlink and of the PDF library ends.
FairSpec == Spec /\ WF_vars(Progress)

\* split_pdf(input_path, chunk_size) driven on its own, for any chunk_size.
InitSplit ==
    /\ InitCommon
    /\ num_workers = 1
    /\ chunk_size \in 1..MaxChunk
    /\ pc = "split"

NextSplit == Interrupt \/ SplitOpen \/ SplitHead \/ SplitWrite

SpecSplit == InitSplit /\ [][NextSplit]_vars

\* A caller that holds the value returned calls process_large_pdf again, on
\* any document.  The locals, the generator, the executor and its futures
\* are those of the new call, and chunks are numbered from 1 again; the
\* module-level shutdown_flag and text_chunks are what they were.  The files
\* and the history of the earlier call are not followed further.
CallAgain ==
    /\ pc = "returned"
    /\ calls < MaxCalls
    /\ calls' = calls + 1
    /\ pc' = "split"
    /\ total_pages' \in 0..MaxReusePages
    /\ gen_state' = "new"
    /\ gen_i' = 0
    /\ segs' = <<>>
    /\ files' = {}
    /\ tpc' = [k \in SegIds |-> "none"]
    /\ result' = [k \in SegIds |-> NoneVal]
    /\ unlinks' = [k \in SegIds |-> 0]
    /\ warned' = {}
    /\ yielded' = {}
    /\ full_text' = <<>>
    /\ inflight_at_set' = {}
    /\ none_done_at_set' = FALSE
    /\ UNCHANGED <<shutdown_flag, num_workers, chunk_size, text_chunks, writes,
                   out_text, listing, error, sweepVars>>

\* process_large_pdf used as a function: called, and called again.
InitReuse == Init /\ total_pages <= MaxReusePages

NextReuse ==
    \/ Interrupt
    \/ CallRun
    \/ SplitOpen
    \/ SplitHead
    \/ SplitWrite
    \/ ListDone
    \/ ListRaise
    \/ Submit
    \/ Worker
    \/ Collect
    \/ CollectEnd
    \/ CheckFlag
    \/ ExitWith
    \/ JoinReturn
    \/ CallAgain

SpecReuse == InitReuse /\ [][NextReuse]_vars

\* The script with its sweeper run again in succession.
SpecSweep == Init /\ [][Next \/ SweepAgain]_vars

\* ------------------------------------------------------------------ claims
\* process_chunk ran extract_text on chunk k and it raised.
ExtractionFailed(k) == tpc[k] = "done" /\ unlinks[k] = 1 /\ ~result[k].some

\* process_large_pdf has returned and the flag was never set.
ReturnedUninterrupted == pc = "returned" /\ ~shutdown_flag

\* C1: every chunk whose process_chunk task has finished has been disposed of
\* (os.unlink called on it) exactly once, whatever the outcome of the task:
\* success, extraction failure or the fast exit on a set flag.
C1_EverySegmentUnlinkedOnce ==
    \A k \in SegIds : tpc[k] = "done" => unlinks[k] = 1

\* C2, as stated: when an uninterrupted run returns, no chunk file remains.
C2_NoFileRemains ==
    ReturnedUninterrupted => files \cap chunk_paths = {}

\* C2, amended: when an uninterrupted run returns, os.unlink has been called
\* exactly once on every chunk, and a chunk file remains only if that call
\* failed (the failure process_chunk logs and ignores).
C2_RemainsOnlyIfUnlinkFailed ==
    ReturnedUninterrupted =>
        \A k \in chunk_paths :
            /\ tpc[k] = "done"
            /\ unlinks[k] = 1
            /\ k \in files => k \in warned

C2_Witness ==
    /\ ReturnedUninterrupted
    /\ Len(segs) = 3
    /\ files = {2}
    /\ result[1].some
    /\ ~result[3].some

\* C3: the text an uninterrupted run returns holds the text of every chunk
\* whose extraction succeeded exactly once, nothing of a chunk whose
\* extraction failed, and nothing else, in whatever order the tasks complete.
C3_AggregateIsSuccessfulTexts ==
    ReturnedUninterrupted =>
        /\ \A k \in SegIds :
               Count(k, full_text) =
                   IF k \in chunk_paths /\ result[k].some THEN 1 ELSE 0
        /\ Len(full_text) = Cardinality({k \in chunk_paths : result[k].some})
        /\ Len(text_chunks) = Cardinality({k \in chunk_paths : result[k].some})

\* Chunk 2 failed and chunk 3 completed before chunk 1.
C3_Witness ==
    /\ ReturnedUninterrupted
    /\ Len(segs) = 3
    /\ full_text = <<3, 1>>

\* C4, as stated: once the flag is set, no task enters extract_text.
C4_NoExtractionAfterFlag ==
    [][\A k \in SegIds :
           (shutdown_flag /\ tpc'[k] = "extracting") => tpc[k] = "extracting"]_vars

\* C4, amended: a task whose process_chunk reads the flag as set returns None
\* without calling extract_text, and extract_text is only entered by a task
\* that read the flag as clear at its start (the flag may have been set since).
C4_FlagSeenAtStartSkipsExtraction ==
    [][\A k \in SegIds :
           /\ (tpc[k] = "start" /\ tpc'[k] # "start") =>
                  IF shutdown_flag
                  THEN tpc'[k] = "done" /\ result'[k] = NoneVal
                  ELSE tpc'[k] = "pre"
           /\ (tpc'[k] = "pre" /\ tpc[k] # "pre") =>
                  (tpc[k] = "start" /\ ~shutdown_flag)
           /\ (tpc'[k] = "extracting" /\ tpc[k] # "extracting") =>
                  tpc[k] = "pre"]_vars

\* A task took the fast exit while another entered extract_text under a set flag.
C4_Witness ==
    /\ shutdown_flag
    /\ \E k \in SegIds : tpc[k] = "done" /\ unlinks[k] = 0
    /\ \E j \in SegIds : tpc[j] = "extracting" /\ j \notin inflight_at_set

\* C5, as stated: a task inside extract_text when the flag is set runs to
\* completion, and the text it produces is in the text the run returns.
C5_InFlightTextRecorded ==
    pc = "returned" =>
        \A k \in inflight_at_set :
            /\ tpc[k] = "done"
            /\ result[k].some => Count(k, full_text) = 1

\* C5, amended: such a task runs to completion (its unlink included) before
\* the run returns, and its text is in the returned text exactly when the
\* collection loop took its future before the loop was left.
C5_InFlightCompletesRecordedIfCollected ==
    pc = "returned" =>
        \A k \in inflight_at_set :
            /\ tpc[k] = "done"
            /\ unlinks[k] = 1
            /\ Count(k, full_text) = IF k \in yielded /\ result[k].some THEN 1 ELSE 0

\* Two tasks were in flight: the text of one is returned, that of the other is not.
C5_Witness ==
    /\ pc = "returned"
    /\ \E k, j \in inflight_at_set :
           /\ k \in yielded /\ Count(k, full_text) = 1
           /\ j \notin yielded /\ result[j].some /\ Count(j, full_text) = 0

\* C6: if the flag is set when every task is submitted and none has finished,
\* the run returns the empty text and no chunk file remains when it returns.
C6_EarlyInterruptEmptyAndClean ==
    (pc = "returned" /\ none_done_at_set) =>
        /\ full_text = <<>>
        /\ files \cap chunk_paths = {}

\* C7: without cancellation split_pdf yields ceil(P / C) chunks, consecutive
\* windows of [0, P) in page order, each of C pages but the last, which has
\* P mod C pages (C if P mod C = 0).
C7_SegmentsPartitionPages ==
    (gen_state = "done" /\ ~shutdown_flag) =>
        LET n == Len(segs)
            last == IF total_pages % chunk_size = 0 THEN chunk_size
                    ELSE total_pages % chunk_size
        IN /\ n = Ceil(total_pages, chunk_size)
           /\ \A m \in 1..n :
                  /\ segs[m].lo = (m - 1) * chunk_size
                  /\ segs[m].hi - segs[m].lo = IF m < n THEN chunk_size ELSE last
                  /\ m < n => segs[m + 1].lo = segs[m].hi
           /\ n > 0 => segs[1].lo = 0 /\ segs[n].hi = total_pages

\* 12 pages in chunks of 5: windows of 5, 5 and 2 pages.
C7_Witness ==
    /\ gen_state = "done"
    /\ ~shutdown_flag
    /\ total_pages = 12
    /\ chunk_size = 5
    /\ segs = <<[lo |-> 0, hi |-> 5], [lo |-> 5, hi |-> 10], [lo |-> 10, hi |-> 12]>>

\* C8: a failing extract_text is never fatal: process_large_pdf raises only
\* when split_pdf raised, text_chunks only ever holds strings, the run can
\* always go on after a failure, the failed chunk adds nothing to the text
\* returned, and in an uninterrupted run every other chunk's text is returned.
C8_ExtractionFailureNotFatal ==
    /\ error # "join"
    /\ error = "split" => gen_state = "raised"
    /\ \A n \in 1..Len(text_chunks) : text_chunks[n].some
    /\ ((\E k \in SegIds : ExtractionFailed(k))
            /\ pc \in {"collect", "check", "exit_with", "join"}) => ENABLED Progress
    /\ pc = "returned" =>
           \A k \in SegIds : ExtractionFailed(k) => Count(k, full_text) = 0
    /\ ReturnedUninterrupted =>
           \A k \in chunk_paths : result[k].some => Count(k, full_text) = 1

\* Of three chunks the second failed; the run returned the other two texts.
C8_Witness ==
    /\ ReturnedUninterrupted
    /\ Len(segs) = 3
    /\ ExtractionFailed(2)
    /\ Count(1, full_text) = 1
    /\ Count(3, full_text) = 1
    /\ Len(full_text) = 2

\* C9: the output file is written at most once, only at the write that
\* follows the decision of __main__, and that decision leads to the write
\* only when it finds the flag clear; the flag, once set, stays set, so a
\* flag set at any time before the decision means no output file.
C9_OutputWrittenOnceIfNotInterrupted ==
    [][/\ writes' # writes => (writes = 0 /\ writes' = 1 /\ pc = "write")
       /\ (pc' = "write" /\ pc # "write") => (pc = "returned" /\ ~shutdown_flag)
       /\ shutdown_flag => shutdown_flag']_vars

\* An interrupted run that collected text and ended without an output file.
C9_Witness ==
    /\ pc = "exit"
    /\ shutdown_flag
    /\ error = "none"
    /\ full_text # <<>>
    /\ writes = 0

\* C10, as stated: whatever chunkSize the caller wants, an uninterrupted run
\* submits ceil(P / chunkSize) tasks.  process_large_pdf takes no chunk size,
\* so its behaviour is the same for every chunkSize the caller may want.
C10_HonoursChunkSize ==
    \A c \in 1..MaxChunk :
        ReturnedUninterrupted => Cardinality(Submitted) = Ceil(total_pages, c)

\* C10, amended: an uninterrupted run submits one task per chunk of
\* split_pdf's default chunk_size, ceil(P / 5) tasks.
C10_DefaultChunkSizeOnly ==
    ReturnedUninterrupted =>
        /\ chunk_size = DefaultChunkSize
        /\ Submitted = chunk_paths
        /\ Cardinality(Submitted) = Ceil(total_pages, DefaultChunkSize)

C10_Witness ==
    /\ ReturnedUninterrupted
    /\ total_pages = 12
    /\ Cardinality(Submitted) = 3

\* process_large_pdf is running: called and neither returned nor raised.
InRun == pc \in {"split", "submit", "collect", "check", "exit_with", "join"}

\* C11: when the collection loop is left on a set flag while futures are
\* still outstanding, process_large_pdf goes on to return whether or not the
\* outstanding tasks have finished.
C11_BreakReturnsWithoutWaiting ==
    (pc = "exit_with" /\ yielded # Submitted) => ENABLED ExitWith

\* C12: the sweeper runs exactly once per process run and only after
\* process_large_pdf has finished (returned or raised, every task done):
\* no pass before that, one pass once the script has ended.
C12_SweeperRunsOnceAfterRun ==
    /\ sweeps <= 1
    /\ (pc \in {"main", "returned", "write", "except", "sweep"} \/ InRun) => sweeps = 0
    /\ sweeps = 1 =>
           /\ pc \in {"sweeping", "exit"}
           /\ calls = 1
           /\ \A k \in Submitted : tpc[k] = "done"
    /\ pc = "exit" => sweeps = 1

\* The script ended after split_pdf raised, and the sweeper made its pass.
C12_Witness ==
    /\ pc = "exit"
    /\ error = "split"
    /\ sweeps = 1
    /\ Len(segs) = 2

\* C13: when the sweeper is run a second time in succession and every
\* deletion has succeeded, the second pass finds nothing to list, deletes
\* nothing and logs no failure: the temp directory stays as the first pass
\* left it, without a chunk file.
C13_SecondSweepIsNoOp ==
    (sweeps >= 2 /\ sweep_warned = {}) => (listing = {} /\ files = {})

\* The first pass deleted the file a fast exit had left; the second pass ran.
C13_Witness ==
    /\ sweeps = 2
    /\ pc = "sweeping"
    /\ sweep_warned = {}
    /\ files = {}
    /\ Len(segs) = 3
    /\ \A k \in chunk_paths : tpc[k] = "done" /\ unlinks[k] = 0

\* C14: when split_pdf cannot open the document or cannot write a window,
\* the failure reaches the caller (process_large_pdf raises it), and at that
\* moment the temp directory holds no file but the whole chunks yielded.
C14_SplitFailureLeavesNoPartial ==
    /\ (gen_state = "raised" /\ pc # "split") => error = "split"
    /\ (pc = "except" /\ error = "split") => files \subseteq chunk_paths

\* C15: a task is submitted only by the submission loop, only for a chunk
\* split_pdf produced, and once; when the loop is over the submitted tasks
\* are exactly the chunks produced (those made before split_pdf saw the flag).
C15_OneTaskPerSegment ==
    [][/\ \A k \in SegIds :
              /\ (tpc[k] = "none" /\ tpc'[k] # "none") =>
                     (pc = "submit" /\ k \in chunk_paths /\ tpc'[k] = "queued")
              /\ (tpc[k] \notin {"none", "queued"}) =>
                     tpc'[k] \notin {"none", "queued"}
       /\ pc' \in {"collect", "check", "exit_with", "join", "returned"} =>
              Submitted' = chunk_paths']_vars

\* split_pdf saw the flag after two of three windows: two tasks are submitted.
C15_Witness ==
    /\ pc = "collect"
    /\ shutdown_flag
    /\ total_pages = 12
    /\ Len(segs) = 2
    /\ Submitted = {1, 2}

\* C16: once the flag is set between two windows (the generator is at its
\* loop head) split_pdf writes no further chunk file and yields no further
\* chunk: its next step ends the sequence, which then stays as it is.
C16_NoSegmentAfterFlagSeen ==
    [][((shutdown_flag /\ gen_state = "head") \/ gen_state = "done") =>
           /\ gen_state' \in {gen_state, "done"}
           /\ segs' = segs
           /\ files' \subseteq files]_vars

\* The sequence ended on the flag with windows left unwritten.
C16_Witness ==
    /\ gen_state = "done"
    /\ shutdown_flag
    /\ Len(segs) = 2
    /\ files = {1, 2}
    /\ Ceil(total_pages, chunk_size) = 4

\* C17: no task is submitted, started or extracting before split_pdf has
\* ended and list(...) has returned all of its chunks.
C17_SegmentationBeforeDispatch ==
    Submitted # {} => (gen_state = "done" /\ pc \notin {"main", "split"})

C17_Witness ==
    /\ Len(segs) = 3
    /\ gen_state = "done"
    /\ tpc[1] = "extracting"
    /\ tpc[2] = "extracting"
    /\ tpc[3] = "queued"

\* C18: no step clears the flag, and a signal that arrives when the flag is
\* already set changes nothing.
C18_FlagMonotonic ==
    [][/\ shutdown_flag => shutdown_flag'
       /\ (shutdown_flag /\ Interrupt) => UNCHANGED vars]_vars

\* The flag was set while tasks were extracting and is still set at the end.
C18_Witness ==
    /\ pc = "exit"
    /\ shutdown_flag
    /\ inflight_at_set # {}

\* C19: the text a call of process_large_pdf returns is made of the texts of
\* the chunks of that call whose futures it collected, each once, and of
\* nothing else: nothing an earlier call in the same process collected.
C19_ReturnHoldsOnlyThisCallsText ==
    pc = "returned" =>
        \A k \in SegIds :
            Count(k, full_text) = IF k \in yielded /\ result[k].some THEN 1 ELSE 0

\* C20, as stated: every call of process_large_pdf eventually returns.
C20_EveryRunReturns ==
    (pc = "split") ~> (pc = "returned")

\* C20, amended: every call of process_large_pdf eventually returns, or
\* raises the failure of split_pdf to its caller.
C20_EveryRunReturnsOrRaises ==
    (pc = "split") ~> (pc = "returned" \/ (pc = "except" /\ error = "split"))

\* An interrupted run of three chunks has returned with futures uncollected.
C20_Witness ==
    /\ pc = "returned"
    /\ shutdown_flag
    /\ Len(segs) = 3
    /\ yielded # Submitted

=============================================================================
